---- MODULE Spec2Model ----
(***************************************************************************)
(* AI Library backend: the catalog build pipeline (catalog_builder.py),    *)
(* the catalog store it writes (two SQLite tables, files and files_fts),   *)
(* and the search engine that reads it (search_engine.py, ai_client.py).   *)
(*                                                                         *)
(* Text values (names, descriptions, extracted text, queries) are          *)
(* sequences of words; a word is a pair <<kind, n>>.  The empty string is  *)
(* the empty sequence.                                                     *)
(***************************************************************************)
EXTENDS Integers, Sequences, FiniteSets, TLC

VARIABLES
    disk,              \* the scanned directory: path -> state of the file
    db,                \* the committed database (what other connections read)
    conn,              \* the build connection's view, uncommitted writes included
    pc,                \* position of the build worker
    i,                 \* build_catalog: loop index (0-based, as enumerate gives it)
    all_files,         \* build_catalog: the enumerated paths
    file_info,         \* build_catalog: result of _process_file for the current file
    sink,              \* the progress sink's calls during the current build, in order
    raised,            \* build_catalog raised to its caller
    catalog_progress,  \* app.py: the global progress dictionary
    search_engine,     \* app.py: the global search engine exists
    result,            \* what the search() call in progress returns
    hist,              \* history: has a build finished, what changed on disk since
    other,             \* app.py: a build thread started earlier that is still running
    arg,               \* the input of the function under study (pure-function checks)
    tree,              \* the scanned directory: path -> where the file lies below the root
    stop               \* a stop of the running build has been asked for

vars == <<disk, db, conn, pc, i, all_files, file_info, sink, raised,
          catalog_progress, search_engine, result, hist, other, arg, tree,
          stop>>

----------------------------------------------------------------------------
(* Bounds of the model *)

MaxFiles == 2
MaxContent == 2
MaxBuilds == 2
MaxChanges == 1
MaxCatalog == 52
BatchFiles == 103
Slack == 2
MaxDepth == 2
MaxTotal == 100

(* Program constants *)

CommitEvery == 100
PromptLimit == 50
FtsLimit == 10
TextCap == 10000
PdfCap == 5000
DocxCap == 5000
ExcelCap == 3000
EllipsisLen == 3
UnitBase == 1024

Paths == 1..MaxFiles
Contents == 1..MaxContent

----------------------------------------------------------------------------
(* The directory *)

AbsentFile == [kind |-> "absent", content |-> 0]
DanglingFile == [kind |-> "dangling", content |-> 0]
UnreadableFile == [kind |-> "unreadable", content |-> 0]
RegularFile(c) == [kind |-> "file", content |-> c]

FileStates ==
    {AbsentFile, DanglingFile, UnreadableFile} \cup {RegularFile(c) : c \in Contents}

(* Path.name: the display name of a path, one word *)
FileName(p) == << <<"name", p>> >>

(* The digest of a byte stream *)
MD5(c) == <<"md5", c>>
EmptyHash == <<>>

(* file_path.stat(): fails for a path that cannot be resolved *)
StatOk(p) == disk[p].kind \in {"file", "unreadable"}

_get_file_hash(p) ==
    IF disk[p].kind = "file" THEN MD5(disk[p].content) ELSE EmptyHash

(* _extract_content_and_metadata, text of the file: one word per content version *)
_extract_content_and_metadata(p) ==
    IF disk[p].kind = "file" THEN << <<"text", disk[p].content>> >> ELSE <<>>

(* AIClient.generate_description: the backend's answer, or the fallback *)
FallbackDescription(p) == << <<"File:", 0>> >> \o FileName(p)
AiDescription(p) == << <<"summary", p>> >>
generate_description(p, aiOk) ==
    IF aiOk THEN AiDescription(p) ELSE FallbackDescription(p)

None == [none |-> TRUE]

(* Fault variant of _process_file: a failure of the description backend is
   not caught in generate_description and ends in the handler of _process_file *)
ProcessFileDescribeRaises(p, aiOk) ==
    IF ~StatOk(p) \/ ~aiOk THEN None
    ELSE [name |-> FileName(p),
          content_hash |-> _get_file_hash(p),
          content_text |-> _extract_content_and_metadata(p),
          description |-> AiDescription(p)]

(* Fault variant of _process_file: when stat() raises, the handler returns
   the basic information it could still gather in place of None *)
ProcessFileStubOnFailure(p, aiOk) ==
    [name |-> FileName(p),
     content_hash |-> _get_file_hash(p),
     content_text |-> _extract_content_and_metadata(p),
     description |-> IF StatOk(p) THEN generate_description(p, aiOk) ELSE <<>>]

(* _process_file: None when stat() raises, else the file_info dictionary *)
_process_file(p, aiOk) ==
    IF ~StatOk(p) THEN None
    ELSE [name |-> FileName(p),
          content_hash |-> _get_file_hash(p),
          content_text |-> _extract_content_and_metadata(p),
          description |-> generate_description(p, aiOk)]

(* Where a file lies: the directories from the root down to it, and its name.
   Of a name, only what the traversal looks at is kept: whether it starts
   with a dot, and the rest of it. *)
EntryName(dot, word) == [dot |-> dot, word |-> word]

AtRoot == [dirs |-> <<>>, name |-> EntryName(FALSE, "file")]

(* the directory names _get_all_files leaves out, besides those with a dot *)
IgnoredDirs ==
    {EntryName(FALSE, "__pycache__"), EntryName(FALSE, "node_modules"),
     EntryName(TRUE, "git"), EntryName(TRUE, "svn"),
     EntryName(FALSE, "venv"), EntryName(FALSE, "env")}

(* for file in files: the files of one directory *)
FilesIn(prefix) ==
    {p \in DOMAIN disk : disk[p].kind # "absent" /\ tree[p].dirs = prefix}

(* dirs: the subdirectories of one directory *)
DirsIn(prefix) ==
    {tree[p].dirs[Len(prefix) + 1] :
        p \in {q \in DOMAIN tree :
                  /\ Len(tree[q].dirs) > Len(prefix)
                  /\ SubSeq(tree[q].dirs, 1, Len(prefix)) = prefix}}

(* Fault variant of Walk: the filtered list is bound to a new name
   (dirs = [...]), so that os.walk descends into every directory *)
RECURSIVE WalkEveryDir(_)
WalkEveryDir(prefix) ==
    {p \in FilesIn(prefix) : ~tree[p].name.dot}
    \cup UNION {WalkEveryDir(Append(prefix, d)) : d \in DirsIn(prefix)}

(* os.walk top-down: dirs[:] is cut down to the directories without a dot
   that are not ignored, and os.walk descends into those alone; of the files
   of a directory, those without a dot are yielded *)
RECURSIVE Walk(_)
Walk(prefix) ==
    {p \in FilesIn(prefix) : ~tree[p].name.dot}
    \cup UNION {Walk(Append(prefix, d)) :
                  d \in {e \in DirsIn(prefix) : ~e.dot /\ e \notin IgnoredDirs}}

(* os.walk lists every directory entry that is not a directory *)
Enumerated == Walk(<<>>)

(* _get_all_files: the entries in the directory's order, which is the order of
   the path numbers *)
InOrder(S) ==
    [k \in 1..Cardinality(S) |->
        CHOOSE p \in S : Cardinality({q \in S : q < p}) = k - 1]

_get_all_files == InOrder(Enumerated)

Orders(S) ==
    {s \in [1..Cardinality(S) -> S] : \A a, b \in 1..Cardinality(S) : a # b => s[a] # s[b]}

----------------------------------------------------------------------------
(* The store *)

EmptyDb == [files |-> {}, fts |-> {}, seq |-> 0]

(* Fault variant of InsertOrReplaceFiles: INSERT OR IGNORE keeps the row a
   path already has *)
InsertOrIgnoreFiles(d, p, info) ==
    IF \E r \in d.files : r.path = p THEN d
    ELSE [d EXCEPT
            !.files = d.files \cup
                      {[id |-> d.seq + 1, path |-> p, name |-> info.name,
                        content_hash |-> info.content_hash,
                        description |-> info.description,
                        content_text |-> info.content_text]},
            !.seq = d.seq + 1]

(* Fault variant of InsertOrReplaceFiles: the table is emptied before the
   insert, as a build that recreates the catalog would do *)
InsertAfterDeleteAll(d, p, info) ==
    [d EXCEPT
        !.files = {[id |-> d.seq + 1, path |-> p, name |-> info.name,
                    content_hash |-> info.content_hash,
                    description |-> info.description,
                    content_text |-> info.content_text]},
        !.seq = d.seq + 1]

(* INSERT OR REPLACE INTO files: the row of the same path is deleted, the new
   row gets the next AUTOINCREMENT id *)
InsertOrReplaceFiles(d, p, info) ==
    [d EXCEPT
        !.files = {r \in d.files : r.path # p} \cup
                  {[id |-> d.seq + 1, path |-> p, name |-> info.name,
                    content_hash |-> info.content_hash,
                    description |-> info.description,
                    content_text |-> info.content_text]},
        !.seq = d.seq + 1]

(* INSERT OR REPLACE INTO files_fts (rowid, ...): files_fts is an external
   content table, so the insert only adds index entries for the given rowid *)
InsertFts(d, rowid, info) ==
    [d EXCEPT
        !.fts = d.fts \cup
                {[rowid |-> rowid, name |-> info.name,
                  description |-> info.description,
                  content_text |-> info.content_text]}]

RowsOf(d, p) == {r \in d.files : r.path = p}

(* Fault variant of _is_file_already_indexed: the comparison inverted *)
HashDiffersFromIndexed(d, p) ==
    /\ StatOk(p)
    /\ \E r \in RowsOf(d, p) : r.content_hash # _get_file_hash(p)

(* Fault variant of _is_file_already_indexed: a row that carries the
   filename-derived description does not count as indexed *)
IndexedUnlessFallback(d, p) ==
    /\ StatOk(p)
    /\ \E r \in RowsOf(d, p) :
          /\ r.content_hash = _get_file_hash(p)
          /\ r.description # FallbackDescription(p)

(* _is_file_already_indexed: False when stat() raises, else whether the row
   of the path carries the hash the file has now *)
_is_file_already_indexed(d, p) ==
    /\ StatOk(p)
    /\ \E r \in RowsOf(d, p) : r.content_hash = _get_file_hash(p)

----------------------------------------------------------------------------
(* The build worker *)

InitialProgress ==
    [isComplete |-> FALSE, progress |-> 0, filesProcessed |-> 0, totalFiles |-> 0,
     currentFile |-> 0, started |-> FALSE, ended |-> FALSE, error |-> FALSE]

Init ==
    /\ disk = [p \in Paths |-> RegularFile(1)]
    /\ db = EmptyDb
    /\ conn = EmptyDb
    /\ pc = "idle"
    /\ i = 0
    /\ all_files = <<>>
    /\ file_info = None
    /\ sink = <<>>
    /\ raised = FALSE
    /\ catalog_progress = InitialProgress
    /\ search_engine = FALSE
    /\ result = None
    /\ hist = [builds |-> 0, built |-> FALSE, changed |-> {}, changes |-> 0]
    /\ other = None
    /\ arg = None
    /\ tree = [p \in DOMAIN disk |-> AtRoot]
    /\ stop = FALSE

CurrentFile == all_files[i + 1]
Total == Len(all_files)

(* The for loop moves to the next file, or leaves the loop *)
NextFile ==
    /\ i' = i + 1
    /\ file_info' = None
    /\ pc' = IF i + 1 < Total THEN "report" ELSE "final_commit"

(* Fault variant of HandleFileError: the handler re-raises *)
ReRaiseFileError ==
    /\ i' = i
    /\ file_info' = file_info
    /\ pc' = "raised"
    /\ raised' = TRUE

(* except Exception as e: print(...); continue *)
HandleFileError ==
    /\ NextFile
    /\ raised' = raised

(* What a failed statement leaves of the open transaction: SQLite undoes the
   statement alone, or rolls the whole transaction back *)
AfterFailure == {conn, db}

(* app.py start_catalog_build, then build_catalog up to the loop: reset the
   progress, enumerate the files, open the connection *)
StartBuild ==
    /\ pc = "idle"
    /\ hist.builds < MaxBuilds
    /\ all_files' = _get_all_files
    /\ pc' = IF Len(_get_all_files) > 0 THEN "report" ELSE "final_commit"
    /\ i' = 0
    /\ file_info' = None
    /\ sink' = <<>>
    /\ raised' = FALSE
    /\ conn' = db
    /\ catalog_progress' = [InitialProgress EXCEPT !.started = TRUE]
    /\ hist' = [hist EXCEPT !.builds = @ + 1]
    /\ UNCHANGED <<disk, db, search_engine, result, other, arg, tree, stop>>

(* int((files_processed / total_files) * 100), on doubles: the product falls
   just short of the exact quotient, and int() gives one less, for these
   (files_processed, total_files) among the totals up to 110; for every other
   pair it is the integer quotient *)
FloatShortfall == {<<29, 50>>, <<29, 100>>, <<57, 100>>, <<58, 100>>}

Percent(files_processed, total_files) ==
    (files_processed * 100) \div total_files
    - (IF <<files_processed, total_files>> \in FloatShortfall THEN 1 ELSE 0)

(* app.py update_progress *)
update_progress(current_file, files_processed, total_files) ==
    [catalog_progress EXCEPT
        !.currentFile = current_file,
        !.filesProcessed = files_processed,
        !.totalFiles = total_files,
        !.progress = IF total_files > 0
                     THEN Percent(files_processed, total_files) ELSE 0]

(* Fault variant of Report: the count of finished files is passed, not the index *)
ReportOneBased ==
    /\ pc = "report"
    /\ catalog_progress' = update_progress(CurrentFile, i + 1, Total)
    /\ sink' = Append(sink, <<CurrentFile, i + 1, Total>>)
    /\ pc' = "check"
    /\ UNCHANGED <<disk, db, conn, i, all_files, file_info, raised, search_engine, result, hist, other, arg, tree, stop>>

(* progress_callback(str(file_path), i, total_files) *)
Report ==
    /\ pc = "report"
    /\ catalog_progress' = update_progress(CurrentFile, i, Total)
    /\ sink' = Append(sink, <<CurrentFile, i, Total>>)
    /\ pc' = "check"
    /\ UNCHANGED <<disk, db, conn, i, all_files, file_info, raised, search_engine, result, hist, other, arg, tree, stop>>

(* if self._is_file_already_indexed(cursor, file_path): continue *)
Check ==
    /\ pc = "check"
    /\ IF _is_file_already_indexed(conn, CurrentFile)
       THEN NextFile
       ELSE /\ pc' = "process"
            /\ UNCHANGED <<i, file_info>>
    /\ UNCHANGED <<disk, db, conn, all_files, sink, raised, catalog_progress,
                   search_engine, result, hist, other, arg, tree, stop>>

(* file_info = self._process_file(file_path); if file_info: ... *)
Process ==
    /\ pc = "process"
    /\ \E aiOk \in BOOLEAN :
          /\ file_info' = _process_file(CurrentFile, aiOk)
          /\ pc' = IF file_info' = None THEN "commit" ELSE "insert_files"
    /\ UNCHANGED <<disk, db, conn, i, all_files, sink, raised, catalog_progress,
                   search_engine, result, hist, other, arg, tree, stop>>

(* cursor.execute('INSERT OR REPLACE INTO files ...') *)
InsertFilesOk ==
    /\ pc = "insert_files"
    /\ conn' = InsertOrReplaceFiles(conn, CurrentFile, file_info)
    /\ pc' = "insert_fts"
    /\ UNCHANGED <<disk, db, i, all_files, file_info, sink, raised,
                   catalog_progress, search_engine, result, hist, other, arg, tree, stop>>

InsertFilesFail ==
    /\ pc = "insert_files"
    /\ conn' \in AfterFailure
    /\ HandleFileError
    /\ UNCHANGED <<disk, db, all_files, sink, catalog_progress, search_engine, result, hist, other, arg, tree, stop>>

(* cursor.execute('INSERT OR REPLACE INTO files_fts ... last_insert_rowid() ...') *)
InsertFtsOk ==
    /\ pc = "insert_fts"
    /\ conn' = InsertFts(conn, conn.seq, file_info)
    /\ pc' = "commit"
    /\ UNCHANGED <<disk, db, i, all_files, file_info, sink, raised,
                   catalog_progress, search_engine, result, hist, other, arg, tree, stop>>

InsertFtsFail ==
    /\ pc = "insert_fts"
    /\ conn' \in AfterFailure
    /\ HandleFileError
    /\ UNCHANGED <<disk, db, all_files, sink, catalog_progress, search_engine, result, hist, other, arg, tree, stop>>

(* if i % 100 == 0: conn.commit() *)
CommitDue == i % CommitEvery = 0

BatchCommit ==
    /\ pc = "commit"
    /\ IF CommitDue
       THEN \/ /\ db' = conn
               /\ conn' = conn
               /\ NextFile
               /\ raised' = raised
            \/ /\ db' = db
               /\ conn' \in AfterFailure
               /\ HandleFileError
       ELSE /\ NextFile
            /\ UNCHANGED <<db, conn, raised>>
    /\ UNCHANGED <<disk, all_files, sink, catalog_progress, search_engine, result, hist, other, arg, tree, stop>>

(* the final conn.commit() after the loop, outside the per-file try *)
FinalCommit ==
    /\ pc = "final_commit"
    /\ \/ /\ db' = conn
          /\ conn' = conn
          /\ pc' = "returned"
          /\ raised' = FALSE
       \/ /\ db' = db
          /\ conn' = db
          /\ pc' = "raised"
          /\ raised' = TRUE
    /\ UNCHANGED <<disk, i, all_files, file_info, sink, catalog_progress,
                   search_engine, result, hist, other, arg, tree, stop>>

(* app.py build_catalog (the thread body), after catalog_builder.build_catalog
   returned *)
MarkComplete ==
    /\ pc = "returned"
    /\ catalog_progress' = [catalog_progress EXCEPT
            !.isComplete = TRUE, !.ended = TRUE, !.progress = 100]
    /\ hist' = [hist EXCEPT !.built = TRUE, !.changed = {}]
    /\ pc' = "idle"
    /\ i' = 0
    /\ all_files' = <<>>
    /\ sink' = <<>>
    /\ search_engine' = TRUE
    /\ UNCHANGED <<disk, db, conn, file_info, raised, result, other, arg, tree, stop>>

(* app.py build_catalog (the thread body), except Exception *)
RecordError ==
    /\ pc = "raised"
    /\ catalog_progress' = [catalog_progress EXCEPT !.error = TRUE]
    /\ pc' = "idle"
    /\ i' = 0
    /\ all_files' = <<>>
    /\ sink' = <<>>
    /\ UNCHANGED <<disk, db, conn, file_info, raised, search_engine, result, hist, other, arg, tree, stop>>

(* The user's directory changes between builds *)
ModifyFile ==
    /\ pc = "idle"
    /\ hist.changes < MaxChanges
    /\ \E p \in Paths, s \in FileStates :
          /\ s # disk[p]
          /\ disk' = [disk EXCEPT ![p] = s]
          /\ hist' = [hist EXCEPT !.changed = @ \cup {p}, !.changes = @ + 1]
    /\ UNCHANGED <<db, conn, pc, i, all_files, file_info, sink, raised,
                   catalog_progress, search_engine, result, other, arg, tree, stop>>

----------------------------------------------------------------------------
(* The search engine *)

Min(a, b) == IF a < b THEN a ELSE b
Range(f) == {f[k] : k \in DOMAIN f}

FileWord == <<"File:", 0>>
UnparsableWord == <<"syntax", 0>>

(* Messages of a search result *)
NothingCatalogedMsg == [kind |-> "nothing_cataloged", n |-> 0]
RankerErrorMsg == [kind |-> "ranker_error", n |-> 0]
ParseTroubleMsg == [kind |-> "parse_trouble", n |-> 0]
RankerMsg == [kind |-> "ranker_message", n |-> 0]
RawResponseMsg == [kind |-> "raw_response", n |-> 0]
SearchErrorMsg == [kind |-> "search_error", n |-> 0]
FoundMsg(k) == [kind |-> "found", n |-> k]

(* row[3] or f"File: {row[1]}" *)
ShownDescription(r) ==
    IF r.description = <<>> THEN <<FileWord>> \o r.name ELSE r.description

Summary(r) == [name |-> r.name, path |-> r.path, description |-> ShownDescription(r)]

(* ORDER BY name *)
NameKey(r) == r.name[1][2]

RECURSIVE OrderByName(_)
OrderByName(rows) ==
    IF rows = {} THEN <<>>
    ELSE LET first == CHOOSE r \in rows : \A q \in rows : NameKey(r) <= NameKey(q)
         IN  <<first>> \o OrderByName(rows \ {first})

(* _get_file_descriptions: the rows by name, or the empty list when the read fails *)
_get_file_descriptions(d, readOk) ==
    IF readOk
    THEN LET rows == OrderByName(d.files)
         IN  [k \in 1..Len(rows) |-> Summary(rows[k])]
    ELSE <<>>

(* _create_search_prompt: the numbered candidates the ranker is shown *)
_create_search_prompt(file_descriptions) ==
    SubSeq(file_descriptions, 1, Min(PromptLimit, Len(file_descriptions)))

(* What _call_ai gives for the search prompt: an exception (timeout included),
   a value that is no string, a text without the MESSAGE:/FILES: markers, or a
   text with them whose FILES: part is a list of items *)
Num(n) == [digits |-> TRUE, value |-> n]
Junk == [digits |-> FALSE, value |-> 0]
OutOfRange == 999

FilesTexts ==
    { <<>>, <<Junk>>, <<Num(1)>>, <<Num(OutOfRange)>>, <<Num(2), Num(1)>>,
      <<Num(0), Num(1)>>, <<Junk, Num(MaxFiles + 1)>> }

RankerResponses ==
    {[kind |-> "error", files_text |-> <<>>],
     [kind |-> "nonstring", files_text |-> <<>>],
     [kind |-> "unformatted", files_text |-> <<>>]}
    \cup {[kind |-> "formatted", files_text |-> t] : t \in FilesTexts}

(* [int(x.strip()) for x in files_text.split(',') if x.strip().isdigit()] *)
RECURSIVE ParseNumbers(_)
ParseNumbers(items) ==
    IF items = <<>> THEN <<>>
    ELSE (IF Head(items).digits THEN <<Head(items).value>> ELSE <<>>)
         \o ParseNumbers(Tail(items))

_parse_search_response(response) ==
    CASE response.kind = "formatted" ->
            [message |-> RankerMsg, has_numbers |-> TRUE,
             file_numbers |-> ParseNumbers(response.files_text)]
      [] response.kind = "unformatted" ->
            [message |-> RawResponseMsg, has_numbers |-> TRUE, file_numbers |-> <<>>]
      [] OTHER ->
            [message |-> ParseTroubleMsg, has_numbers |-> TRUE, file_numbers |-> <<>>]

(* AIClient.search_query: on an exception the answer has no 'file_numbers' key *)
search_query(response) ==
    IF response.kind = "error"
    THEN [message |-> RankerErrorMsg, has_numbers |-> FALSE, file_numbers |-> <<>>]
    ELSE _parse_search_response(response)

RECURSIVE _get_files_by_numbers(_, _)
_get_files_by_numbers(file_numbers, file_descriptions) ==
    IF file_numbers = <<>> THEN <<>>
    ELSE LET num == Head(file_numbers)
         IN  (IF 1 <= num /\ num <= Len(file_descriptions)
              THEN <<file_descriptions[num]>> ELSE <<>>)
             \o _get_files_by_numbers(Tail(file_numbers), file_descriptions)

(* fts_query = ' OR '.join(query.split()): FTS5 rejects the empty query and
   terms it cannot parse *)
FtsParses(query) == query # <<>> /\ UnparsableWord \notin Range(query)

EntryWords(e) == Range(e.name) \cup Range(e.description) \cup Range(e.content_text)

(* FROM files_fts fts JOIN files f ON f.id = fts.rowid WHERE files_fts MATCH ? *)
FtsMatches(query, d) ==
    {r \in d.files :
        \E e \in d.fts : e.rowid = r.id /\ EntryWords(e) \cap Range(query) # {}}

(* The orders ORDER BY rank may give the matches *)
RankOrders(query, d) == IF FtsParses(query) THEN Orders(FtsMatches(query, d)) ELSE {<<>>}

(* _fts_search: ranked is the order by rank; LIMIT 10; [] on any exception *)
_fts_search(query, ranked) ==
    IF ~FtsParses(query) THEN <<>>
    ELSE [k \in 1..Min(FtsLimit, Len(ranked)) |-> Summary(ranked[k])]

(* The three ways out of search's try block *)
NothingCataloged(query) ==
    [query |-> query, message |-> NothingCatalogedMsg, files |-> <<>>,
     stage |-> "empty", file_numbers |-> <<>>,
     ranker_called |-> FALSE, fts_called |-> FALSE, raised |-> FALSE]

RankedFiles(query, ai_response, ai_files) ==
    [query |-> query, message |-> ai_response.message, files |-> ai_files,
     stage |-> "ai", file_numbers |-> ai_response.file_numbers,
     ranker_called |-> TRUE, fts_called |-> FALSE, raised |-> FALSE]

(* Fault variant of LexicalFiles: the message of the AI stage is kept when the
   lexical search found files *)
LexicalFilesKeepingMessage(query, ai_response, fts_files) ==
    [query |-> query,
     message |-> ai_response.message,
     files |-> fts_files,
     stage |-> "fts", file_numbers |-> ai_response.file_numbers,
     ranker_called |-> TRUE, fts_called |-> TRUE, raised |-> FALSE]

LexicalFiles(query, ai_response, fts_files) ==
    [query |-> query,
     message |-> IF fts_files # <<>> THEN FoundMsg(Len(fts_files))
                 ELSE ai_response.message,
     files |-> fts_files,
     stage |-> "fts", file_numbers |-> ai_response.file_numbers,
     ranker_called |-> TRUE, fts_called |-> TRUE, raised |-> FALSE]

(* matched_files after the AI stage *)
AiStageFiles(ai_response, file_descriptions) ==
    IF ai_response.has_numbers /\ ai_response.file_numbers # <<>>
    THEN _get_files_by_numbers(ai_response.file_numbers, file_descriptions)
    ELSE <<>>

(* Fault variant of search_try: no lexical fallback *)
SearchWithoutFallback(query, d, readOk, response, ranked) ==
    LET file_descriptions == _get_file_descriptions(d, readOk)
        ai_response == search_query(response)
    IN  IF file_descriptions = <<>> THEN NothingCataloged(query)
        ELSE RankedFiles(query, ai_response,
                         AiStageFiles(ai_response, file_descriptions))

(* Fault variant of search_try: no test for the empty catalog *)
SearchWithoutEmptyTest(query, d, readOk, response, ranked) ==
    LET file_descriptions == _get_file_descriptions(d, readOk)
        ai_response == search_query(response)
        ai_files == AiStageFiles(ai_response, file_descriptions)
    IN  IF ai_files # <<>> THEN RankedFiles(query, ai_response, ai_files)
        ELSE LexicalFiles(query, ai_response, _fts_search(query, ranked))

(* SearchEngine.search, the body of its try block *)
search_try(query, d, readOk, response, ranked) ==
    LET file_descriptions == _get_file_descriptions(d, readOk)
        ai_response == search_query(response)
        ai_files == AiStageFiles(ai_response, file_descriptions)
    IN  IF file_descriptions = <<>> THEN NothingCataloged(query)
        ELSE IF ai_files # <<>> THEN RankedFiles(query, ai_response, ai_files)
        ELSE LexicalFiles(query, ai_response, _fts_search(query, ranked))

(* Fault variant of search: ai_response['file_numbers'] is read without the
   test for the key, and no handler surrounds the body *)
SearchUnguarded(query, d, readOk, response, ranked) ==
    LET r == search_try(query, d, readOk, response, ranked)
    IN  IF r.ranker_called /\ ~search_query(response).has_numbers
        THEN [r EXCEPT !.raised = TRUE]
        ELSE r

(* SearchEngine.search: except Exception gives the error result *)
search(query, d, readOk, response, ranked) ==
    LET r == search_try(query, d, readOk, response, ranked)
    IN  IF r.raised
        THEN [r EXCEPT !.message = SearchErrorMsg, !.files = <<>>,
                       !.stage = "error", !.raised = FALSE]
        ELSE r

Word(kind, n) == <<kind, n>>

Queries ==
    { <<Word("text", 1)>>,
      <<Word("name", 1), Word("text", 2)>>,
      <<UnparsableWord>> }

(* app.py search_files: the query runs on the engine's own connection, which
   reads the committed database *)
SearchPoints == {"idle", "report", "insert_fts"}

(* Fault variant of Search: the request waits until no build is running *)
SearchWhenIdle ==
    /\ result = None
    /\ search_engine
    /\ pc = "idle"
    /\ \E query \in Queries, readOk \in BOOLEAN, response \in RankerResponses :
          \E ranked \in RankOrders(query, db) :
              result' = search(query, db, readOk, response, ranked)
    /\ UNCHANGED <<disk, db, conn, pc, i, all_files, file_info, sink, raised,
                   catalog_progress, search_engine, hist, other, arg, tree, stop>>

(* Fault variant of Search: the engine creates its tables anew before it reads *)
SearchInitializingStore ==
    /\ result = None
    /\ search_engine
    /\ pc \in SearchPoints
    /\ \E query \in Queries, readOk \in BOOLEAN, response \in RankerResponses :
          \E ranked \in RankOrders(query, db) :
              result' = search(query, db, readOk, response, ranked)
    /\ db' = EmptyDb
    /\ UNCHANGED <<disk, conn, pc, i, all_files, file_info, sink, raised,
                   catalog_progress, search_engine, hist, other, arg, tree, stop>>

Search ==
    /\ result = None
    /\ search_engine
    /\ pc \in SearchPoints
    /\ \E query \in Queries, readOk \in BOOLEAN, response \in RankerResponses :
          \E ranked \in RankOrders(query, db) :
              result' = search(query, db, readOk, response, ranked)
    /\ UNCHANGED <<disk, db, conn, pc, i, all_files, file_info, sink, raised,
                   catalog_progress, search_engine, hist, other, arg, tree, stop>>

(* the result goes back to the caller *)
Respond ==
    /\ result # None
    /\ result' = None
    /\ UNCHANGED <<disk, db, conn, pc, i, all_files, file_info, sink, raised,
                   catalog_progress, search_engine, hist, other, arg, tree, stop>>

----------------------------------------------------------------------------
Next ==
    \/ StartBuild
    \/ Report
    \/ Check
    \/ Process
    \/ InsertFilesOk
    \/ InsertFilesFail
    \/ InsertFtsOk
    \/ InsertFtsFail
    \/ BatchCommit
    \/ FinalCommit
    \/ MarkComplete
    \/ RecordError
    \/ ModifyFile

Spec == Init /\ [][Next]_vars

(* A started build thread keeps running: the steps of the worker are taken
   when they stay enabled.  Requests (StartBuild) and changes of the directory
   (ModifyFile) come from outside and need not happen. *)
WorkerStep ==
    \/ Report
    \/ Check
    \/ Process
    \/ InsertFilesOk
    \/ InsertFilesFail
    \/ InsertFtsOk
    \/ InsertFtsFail
    \/ BatchCommit
    \/ FinalCommit
    \/ MarkComplete
    \/ RecordError

SpecLive == Init /\ [][Next]_vars /\ WF_vars(WorkerStep)

(* The build worker together with search requests *)
BuildStep == result = None /\ Next

NextSearch ==
    \/ BuildStep
    \/ Search
    \/ Respond

SpecSearch == Init /\ [][NextSearch]_vars

(* app.py search_files, the request as a whole: it is refused while no search
   engine exists, and the engine is created when a build has completed *)
NotInitializedMsg == [kind |-> "not_initialized", n |-> 0]

Refused(query) ==
    [query |-> query, message |-> NotInitializedMsg, files |-> <<>>,
     stage |-> "rejected", file_numbers |-> <<>>,
     ranker_called |-> FALSE, fts_called |-> FALSE, raised |-> FALSE]

(* if not search_engine: return jsonify({'error': ...}), 400 *)
SearchRefused ==
    /\ result = None
    /\ ~search_engine
    /\ pc \in SearchPoints
    /\ \E query \in Queries : result' = Refused(query)
    /\ UNCHANGED <<disk, db, conn, pc, i, all_files, file_info, sink, raised,
                   catalog_progress, search_engine, hist, other, arg, tree, stop>>

NextServe ==
    \/ BuildStep
    \/ Search
    \/ SearchRefused
    \/ Respond

SpecServe == Init /\ [][NextServe]_vars

(* The ranking stage alone, on catalogs of up to MaxCatalog records: the
   catalog a first build leaves that stored every one of n files *)
CatalogRow(k) ==
    [id |-> k, path |-> k, name |-> FileName(k), content_hash |-> MD5(1),
     description |-> AiDescription(k), content_text |-> <<Word("text", 1)>>]

CatalogOf(n) ==
    [files |-> {CatalogRow(k) : k \in 1..n},
     fts |-> {[rowid |-> k, name |-> CatalogRow(k).name,
               description |-> CatalogRow(k).description,
               content_text |-> CatalogRow(k).content_text] : k \in 1..n},
     seq |-> n]

ProbeNumbers == {0, 1, PromptLimit, PromptLimit + 1, OutOfRange}

ProbeResponses ==
    {[kind |-> "formatted", files_text |-> <<Num(a)>>] : a \in ProbeNumbers}
    \cup {[kind |-> "formatted", files_text |-> <<Num(a), Num(b)>>] :
             a \in ProbeNumbers, b \in ProbeNumbers}

InitRank ==
    /\ \E n \in 0..MaxCatalog :
          /\ disk = [p \in 1..n |-> RegularFile(1)]
          /\ db = CatalogOf(n)
          /\ conn = CatalogOf(n)
    /\ pc = "idle"
    /\ i = 0
    /\ all_files = <<>>
    /\ file_info = None
    /\ sink = <<>>
    /\ raised = FALSE
    /\ catalog_progress = [InitialProgress EXCEPT
            !.started = TRUE, !.isComplete = TRUE, !.ended = TRUE, !.progress = 100]
    /\ search_engine = TRUE
    /\ result = None
    /\ hist = [builds |-> 1, built |-> TRUE, changed |-> {}, changes |-> 0]
    /\ other = None
    /\ arg = None
    /\ tree = [p \in DOMAIN disk |-> AtRoot]
    /\ stop = FALSE

(* search on a query the lexical search cannot parse, so that only the ranking
   stage can give files *)
RankSearch ==
    /\ result = None
    /\ search_engine
    /\ \E response \in ProbeResponses :
          result' = search(<<UnparsableWord>>, db, TRUE, response, <<>>)
    /\ UNCHANGED <<disk, db, conn, pc, i, all_files, file_info, sink, raised,
                   catalog_progress, search_engine, hist, other, arg, tree, stop>>

NextRank ==
    \/ RankSearch
    \/ Respond

SpecRank == InitRank /\ [][NextRank]_vars
----------------------------------------------------------------------------
(* A build over a directory of BatchFiles files, more than one batch of
   commits.  The store holds nothing, or the one record an earlier build left
   when the directory held a single file.  The build is followed where the
   description backend answers and the inserts succeed. *)

CatalogOfOne(p) ==
    [files |-> {[CatalogRow(p) EXCEPT !.id = 1]},
     fts |-> {[rowid |-> 1, name |-> CatalogRow(p).name,
               description |-> CatalogRow(p).description,
               content_text |-> CatalogRow(p).content_text]},
     seq |-> 1]

InitBatch ==
    /\ disk = [p \in 1..BatchFiles |-> RegularFile(1)]
    /\ \E d \in {EmptyDb, CatalogOfOne(CommitEvery + 1)} :
          /\ db = d
          /\ conn = d
    /\ pc = "idle"
    /\ i = 0
    /\ all_files = <<>>
    /\ file_info = None
    /\ sink = <<>>
    /\ raised = FALSE
    /\ catalog_progress = InitialProgress
    /\ search_engine = FALSE
    /\ result = None
    /\ hist = [builds |-> 0, built |-> FALSE, changed |-> {}, changes |-> 0]
    /\ other = None
    /\ arg = None
    /\ tree = [p \in DOMAIN disk |-> AtRoot]
    /\ stop = FALSE

(* file_info = self._process_file(file_path), the description backend answering *)
ProcessDescribed ==
    /\ pc = "process"
    /\ file_info' = _process_file(CurrentFile, TRUE)
    /\ pc' = IF file_info' = None THEN "commit" ELSE "insert_files"
    /\ UNCHANGED <<disk, db, conn, i, all_files, sink, raised, catalog_progress,
                   search_engine, result, hist, other, arg, tree, stop>>

NextBatch ==
    \/ StartBuild
    \/ Report
    \/ Check
    \/ ProcessDescribed
    \/ InsertFilesOk
    \/ InsertFtsOk
    \/ BatchCommit
    \/ FinalCommit
    \/ MarkComplete
    \/ RecordError

SpecBatch == InitBatch /\ [][NextBatch]_vars

----------------------------------------------------------------------------
(* Builds over directories of 1, 2, MaxTotal / 2 and MaxTotal files, for the
   percentages the progress callback computes.  The build is followed where
   the description backend answers and the inserts succeed. *)

ProbeTotals == {1, 2, MaxTotal \div 2, MaxTotal}

InitProgress ==
    /\ \E n \in ProbeTotals : disk = [p \in 1..n |-> RegularFile(1)]
    /\ db = EmptyDb
    /\ conn = EmptyDb
    /\ pc = "idle"
    /\ i = 0
    /\ all_files = <<>>
    /\ file_info = None
    /\ sink = <<>>
    /\ raised = FALSE
    /\ catalog_progress = InitialProgress
    /\ search_engine = FALSE
    /\ result = None
    /\ hist = [builds |-> 0, built |-> FALSE, changed |-> {}, changes |-> 0]
    /\ other = None
    /\ arg = None
    /\ tree = [p \in DOMAIN disk |-> AtRoot]
    /\ stop = FALSE

SpecProgress == InitProgress /\ [][NextBatch]_vars

----------------------------------------------------------------------------
(* Builds over a directory whose file 1 cannot be resolved (a dangling link),
   so that processing it fails.  The store holds nothing, or the record an
   earlier build left for file 1 when it could still be read. *)

InitRetry ==
    /\ disk = [p \in Paths |-> IF p = 1 THEN DanglingFile ELSE RegularFile(1)]
    /\ \E d \in {EmptyDb, CatalogOfOne(1)} :
          /\ db = d
          /\ conn = d
    /\ pc = "idle"
    /\ i = 0
    /\ all_files = <<>>
    /\ file_info = None
    /\ sink = <<>>
    /\ raised = FALSE
    /\ catalog_progress = InitialProgress
    /\ search_engine = FALSE
    /\ result = None
    /\ hist = [builds |-> 0, built |-> FALSE, changed |-> {}, changes |-> 0]
    /\ other = None
    /\ arg = None
    /\ tree = [p \in DOMAIN disk |-> AtRoot]
    /\ stop = FALSE

SpecRetry == InitRetry /\ [][Next]_vars

----------------------------------------------------------------------------
(* Content extraction, on the length of the text.  An input names the kind of
   file (by its extension), the length of the text the file holds, whether the
   type-specific extractor raises, and whether an exception reaches the handler
   of the dispatch.  Metadata is the set of its keys. *)

FileKinds == {"text", "pdf", "docx", "excel", "image", "audio", "video", "unknown"}

ErrorMetadata == {"error"}

(* content[:10000] + "..." when the text is longer than 10000 *)
_extract_text_content(n, ok) ==
    IF ok
    THEN [content |-> IF n > TextCap THEN TextCap + EllipsisLen ELSE n,
          metadata |-> {"file_type", "char_count"}]
    ELSE [content |-> 0, metadata |-> ErrorMetadata]

(* text[:5000] *)
_extract_pdf_content(n, ok) ==
    IF ok
    THEN [content |-> Min(n, PdfCap),
          metadata |-> {"file_type", "page_count", "char_count"}]
    ELSE [content |-> 0, metadata |-> ErrorMetadata]

(* text[:5000] *)
_extract_docx_content(n, ok) ==
    IF ok
    THEN [content |-> Min(n, DocxCap),
          metadata |-> {"file_type", "paragraph_count", "char_count"}]
    ELSE [content |-> 0, metadata |-> ErrorMetadata]

(* text[:3000] *)
_extract_excel_content(n, ok) ==
    IF ok
    THEN [content |-> Min(n, ExcelCap),
          metadata |-> {"file_type", "sheet_count", "char_count"}]
    ELSE [content |-> 0, metadata |-> ErrorMetadata]

(* _extract_image_metadata, _extract_audio_metadata, _extract_video_metadata:
   no text *)
ExtractMediaMetadata(ok) ==
    IF ok
    THEN [content |-> 0, metadata |-> {"file_type"}]
    ELSE [content |-> 0, metadata |-> ErrorMetadata]

(* _extract_content_and_metadata, the dispatch on the extension and its own
   handler: return '', {} *)
ExtractDispatch(a) ==
    IF ~a.dispatchOk THEN [content |-> 0, metadata |-> {}]
    ELSE CASE a.ext = "text" -> _extract_text_content(a.length, a.extractorOk)
           [] a.ext = "pdf" -> _extract_pdf_content(a.length, a.extractorOk)
           [] a.ext = "docx" -> _extract_docx_content(a.length, a.extractorOk)
           [] a.ext = "excel" -> _extract_excel_content(a.length, a.extractorOk)
           [] a.ext \in {"image", "audio", "video"} -> ExtractMediaMetadata(a.extractorOk)
           [] OTHER -> [content |-> 0, metadata |-> {"file_type"}]

ProbeLengths ==
    {c + d : c \in {0, ExcelCap, PdfCap, TextCap}, d \in (0 - Slack)..Slack} \cap Nat

ExtractInputs ==
    [fn : {"extract"}, ext : FileKinds, length : ProbeLengths,
     extractorOk : BOOLEAN, dispatchOk : BOOLEAN]

----------------------------------------------------------------------------
(* Size formatting.  A size is held as its digits to the base 1024, least
   significant first, so that sizes up to the TB range are covered; the sizes
   are below 2^53, where dividing the float by 1024.0 is exact.  A rendered
   number is held in tenths: 15 with unit "KB" is "1.5 KB". *)

ByteUnits == <<"B", "KB", "MB", "GB">>

UnknownSize == [text |-> "Unknown", tenths |-> 0, unit |-> ""]

(* size_bytes < 1024.0 after k divisions: no digit above the k-th is set *)
BelowBase(digits, k) == \A j \in (k + 2)..Len(digits) : digits[j] = 0

(* the integer part of the size after k divisions *)
RECURSIVE IntAbove(_, _)
IntAbove(digits, k) ==
    IF k >= Len(digits) THEN 0
    ELSE digits[k + 1] + UnitBase * IntAbove(digits, k + 1)

(* the fraction after k divisions, most significant digit first *)
FractionOf(digits, k) == [j \in 1..k |-> digits[k + 1 - j]]

(* ten times a fraction: the carry into the integer part and the fraction left *)
RECURSIVE TimesTen(_)
TimesTen(f) ==
    IF f = <<>> THEN [carry |-> 0, digits |-> <<>>]
    ELSE LET rest == TimesTen(Tail(f))
             v == 10 * Head(f) + rest.carry
         IN  [carry |-> v \div UnitBase, digits |-> <<v % UnitBase>> \o rest.digits]

(* Fault variant of OneDecimal: the digits after the first decimal are cut *)
OneDecimalCut(digits, k) ==
    10 * IntAbove(digits, k) + TimesTen(FractionOf(digits, k)).carry

(* f"{size_bytes:.1f}": the nearest tenth, ties to the even tenth *)
OneDecimal(digits, k) ==
    LET t == TimesTen(FractionOf(digits, k))
        r == t.digits
        low == 10 * IntAbove(digits, k) + t.carry
        half == UnitBase \div 2
        restZero == \A j \in 2..Len(r) : r[j] = 0
        up == /\ r # <<>>
              /\ \/ r[1] > half
                 \/ r[1] = half /\ ~restZero
                 \/ r[1] = half /\ restZero /\ low % 2 = 1
    IN  low + (IF up THEN 1 ELSE 0)

(* for unit in ['B', 'KB', 'MB', 'GB']: ...; return f"{size_bytes:.1f} TB" *)
RECURSIVE FormatFrom(_, _)
FormatFrom(digits, k) ==
    IF k = Len(ByteUnits)
    THEN [text |-> "size", tenths |-> OneDecimal(digits, k), unit |-> "TB"]
    ELSE IF BelowBase(digits, k)
    THEN [text |-> "size", tenths |-> OneDecimal(digits, k), unit |-> ByteUnits[k + 1]]
    ELSE FormatFrom(digits, k + 1)

_format_file_size(size_bytes) ==
    IF size_bytes.absent THEN UnknownSize ELSE FormatFrom(size_bytes.digits, 0)

ProbeDigits == {0, 1, 256, 512, UnitBase - 1}

SizeInputs ==
    [fn : {"format_size"}, absent : {TRUE}, digits : {<<0, 0, 0, 0, 0, 0>>}]
    \cup [fn : {"format_size"}, absent : {FALSE},
          digits : {<<a, b, c, d, e, f>> :
                       a \in ProbeDigits, b \in ProbeDigits, c \in ProbeDigits,
                       d \in ProbeDigits, e \in ProbeDigits, f \in {0, 1}}]

----------------------------------------------------------------------------
(* The functions alone: the input is drawn at the start, one step applies the
   function *)

InitPure ==
    /\ arg \in ExtractInputs \cup SizeInputs
    /\ result = None
    /\ disk = [p \in Paths |-> RegularFile(1)]
    /\ db = EmptyDb
    /\ conn = EmptyDb
    /\ pc = "idle"
    /\ i = 0
    /\ all_files = <<>>
    /\ file_info = None
    /\ sink = <<>>
    /\ raised = FALSE
    /\ catalog_progress = InitialProgress
    /\ search_engine = FALSE
    /\ hist = [builds |-> 0, built |-> FALSE, changed |-> {}, changes |-> 0]
    /\ other = None
    /\ tree = [p \in DOMAIN disk |-> AtRoot]
    /\ stop = FALSE

Extract ==
    /\ arg.fn = "extract"
    /\ result = None
    /\ result' = ExtractDispatch(arg)
    /\ UNCHANGED <<disk, db, conn, pc, i, all_files, file_info, sink, raised,
                   catalog_progress, search_engine, hist, other, arg, tree, stop>>

FormatSize ==
    /\ arg.fn = "format_size"
    /\ result = None
    /\ result' = _format_file_size(arg)
    /\ UNCHANGED <<disk, db, conn, pc, i, all_files, file_info, sink, raised,
                   catalog_progress, search_engine, hist, other, arg, tree, stop>>

NextPure ==
    \/ Extract
    \/ FormatSize

SpecPure == InitPure /\ [][NextPure]_vars

----------------------------------------------------------------------------
(* Overlapping builds.  start_catalog_build does not test whether a build
   thread is running: a second request replaces the globals and starts a second
   thread beside the first.  The thread started last is followed step by step
   in the variables of the build worker; the thread started earlier is kept in
   other and followed file by file.  SQLite admits one writer, so the earlier
   thread is followed where each remaining file is skipped or its write raises
   ("database is locked") and the handler continues: the store is written by
   the later thread alone. *)

(* start_catalog_build while a build thread is between two files *)
StartBuildOverlapping ==
    /\ pc = "report"
    /\ other = None
    /\ conn = db
    /\ hist.builds < MaxBuilds
    /\ other' = [pc |-> "report", i |-> i, all_files |-> all_files]
    /\ all_files' = _get_all_files
    /\ pc' = IF Len(_get_all_files) > 0 THEN "report" ELSE "final_commit"
    /\ i' = 0
    /\ file_info' = None
    /\ sink' = <<>>
    /\ raised' = FALSE
    /\ conn' = db
    /\ catalog_progress' = [InitialProgress EXCEPT !.started = TRUE]
    /\ hist' = [hist EXCEPT !.builds = @ + 1]
    /\ UNCHANGED <<disk, db, search_engine, result, arg, tree, stop>>

(* the earlier thread: progress_callback(str(file_path), i, total_files) *)
OtherReport ==
    /\ other # None
    /\ other.pc = "report"
    /\ catalog_progress' =
           update_progress(other.all_files[other.i + 1], other.i, Len(other.all_files))
    /\ other' = [other EXCEPT !.pc = "handle"]
    /\ UNCHANGED <<disk, db, conn, pc, i, all_files, file_info, sink, raised,
                   search_engine, result, hist, arg, tree, stop>>

(* the earlier thread: the file is skipped, or handling it raises and the
   handler continues *)
OtherHandle ==
    /\ other # None
    /\ other.pc = "handle"
    /\ other' = [other EXCEPT
           !.i = @ + 1,
           !.pc = IF other.i + 1 < Len(other.all_files) THEN "report" ELSE "returned"]
    /\ UNCHANGED <<disk, db, conn, pc, i, all_files, file_info, sink, raised,
                   catalog_progress, search_engine, result, hist, arg, tree, stop>>

(* the earlier thread: app.py build_catalog after catalog_builder.build_catalog
   returned *)
OtherMarkComplete ==
    /\ other # None
    /\ other.pc = "returned"
    /\ catalog_progress' = [catalog_progress EXCEPT
            !.isComplete = TRUE, !.ended = TRUE, !.progress = 100]
    /\ search_engine' = TRUE
    /\ other' = None
    /\ UNCHANGED <<disk, db, conn, pc, i, all_files, file_info, sink, raised,
                   result, hist, arg, tree, stop>>

NextOverlap ==
    \/ Next
    \/ StartBuildOverlapping
    \/ OtherReport
    \/ OtherHandle
    \/ OtherMarkComplete

SpecOverlap == Init /\ [][NextOverlap]_vars

----------------------------------------------------------------------------
(* Builds over a directory tree.  File 1 lies anywhere up to MaxDepth
   directories below the root, under directories of every kind of name the
   traversal tells apart; the other files lie at the root, plain or hidden, or
   below an ignored directory. *)

DirNames == IgnoredDirs \cup {EntryName(TRUE, "cache"), EntryName(FALSE, "src")}

DirChains == UNION {[1..k -> DirNames] : k \in 0..MaxDepth}

Hidden == EntryName(TRUE, "file")

Locations == [dirs : DirChains, name : {AtRoot.name, Hidden}]

NearLocations ==
    {AtRoot,
     [dirs |-> <<>>, name |-> Hidden],
     [dirs |-> <<EntryName(FALSE, "venv"), EntryName(FALSE, "src")>>, name |-> AtRoot.name]}

InitTree ==
    /\ disk = [p \in Paths |-> RegularFile(1)]
    /\ \E loc \in Locations, near \in [Paths -> NearLocations] :
          tree = [p \in Paths |-> IF p = 1 THEN loc ELSE near[p]]
    /\ db = EmptyDb
    /\ conn = EmptyDb
    /\ pc = "idle"
    /\ i = 0
    /\ all_files = <<>>
    /\ file_info = None
    /\ sink = <<>>
    /\ raised = FALSE
    /\ catalog_progress = InitialProgress
    /\ search_engine = FALSE
    /\ result = None
    /\ hist = [builds |-> 0, built |-> FALSE, changed |-> {}, changes |-> 0]
    /\ other = None
    /\ arg = None
    /\ stop = FALSE

NextTree ==
    \/ StartBuild
    \/ WorkerStep

SpecTree == InitTree /\ [][NextTree]_vars

----------------------------------------------------------------------------
(* A stop of the running build.  Neither app.py nor build_catalog holds a stop
   flag or a route that sets one: the wish to stop is the caller's alone, and
   no step of the build reads it. *)

SignalStop ==
    /\ pc # "idle"
    /\ ~stop
    /\ stop' = TRUE
    /\ UNCHANGED <<disk, db, conn, pc, i, all_files, file_info, sink, raised,
                   catalog_progress, search_engine, result, hist, other, arg, tree>>

NextStop ==
    \/ Next
    \/ SignalStop

SpecStop == Init /\ [][NextStop]_vars

----------------------------------------------------------------------------
(* The completion of a build statement by statement, beside requests that read
   the progress.  The thread body assigns three keys of the global dictionary
   one after the other and then creates the search engine; a request handled
   on another thread can read the dictionary between any two of them. *)

(* catalog_progress['isComplete'] = True *)
SetIsComplete ==
    /\ pc = "returned"
    /\ catalog_progress' = [catalog_progress EXCEPT !.isComplete = TRUE]
    /\ pc' = "set_end_time"
    /\ UNCHANGED <<disk, db, conn, i, all_files, file_info, sink, raised,
                   search_engine, result, hist, other, arg, tree, stop>>

(* catalog_progress['endTime'] = datetime.now().isoformat() *)
SetEndTime ==
    /\ pc = "set_end_time"
    /\ catalog_progress' = [catalog_progress EXCEPT !.ended = TRUE]
    /\ pc' = "set_progress"
    /\ UNCHANGED <<disk, db, conn, i, all_files, file_info, sink, raised,
                   search_engine, result, hist, other, arg, tree, stop>>

(* catalog_progress['progress'] = 100 *)
SetProgress ==
    /\ pc = "set_progress"
    /\ catalog_progress' = [catalog_progress EXCEPT !.progress = 100]
    /\ pc' = "create_engine"
    /\ UNCHANGED <<disk, db, conn, i, all_files, file_info, sink, raised,
                   search_engine, result, hist, other, arg, tree, stop>>

(* search_engine = SearchEngine(catalog_builder.db_path, ai_client); the
   thread ends *)
CreateSearchEngine ==
    /\ pc = "create_engine"
    /\ search_engine' = TRUE
    /\ hist' = [hist EXCEPT !.built = TRUE, !.changed = {}]
    /\ pc' = "idle"
    /\ i' = 0
    /\ all_files' = <<>>
    /\ sink' = <<>>
    /\ UNCHANGED <<disk, db, conn, file_info, raised, catalog_progress, result,
                   other, arg, tree, stop>>

(* app.py get_catalog_progress: return jsonify(catalog_progress) *)
get_catalog_progress ==
    /\ result = None
    /\ result' = [stage |-> "progress", snapshot |-> catalog_progress]
    /\ UNCHANGED <<disk, db, conn, pc, i, all_files, file_info, sink, raised,
                   catalog_progress, search_engine, hist, other, arg, tree, stop>>

NextSnapshot ==
    \/ StartBuild
    \/ Report
    \/ Check
    \/ Process
    \/ InsertFilesOk
    \/ InsertFilesFail
    \/ InsertFtsOk
    \/ InsertFtsFail
    \/ BatchCommit
    \/ FinalCommit
    \/ SetIsComplete
    \/ SetEndTime
    \/ SetProgress
    \/ CreateSearchEngine
    \/ RecordError
    \/ get_catalog_progress
    \/ Respond

SpecSnapshot == Init /\ [][NextSnapshot]_vars

----------------------------------------------------------------------------
(* Properties of the build pipeline, checked under Spec *)

(* The row of a path carries the hash the file has now *)
HasCurrentRecord(d, p) ==
    /\ StatOk(p)
    /\ \E r \in RowsOf(d, p) : r.content_hash = _get_file_hash(p)

(* The path has a row, and its hash is not the one the file has now *)
HasStaleRecord(d, p) ==
    /\ StatOk(p)
    /\ RowsOf(d, p) # {}
    /\ \A r \in RowsOf(d, p) : r.content_hash # _get_file_hash(p)

(* A build that runs over the directory as the last finished build left it *)
RerunUnchanged == pc # "idle" /\ hist.built /\ hist.changed = {}

InLoopBody == pc \in {"check", "process", "insert_files", "insert_fts", "commit"}
LoopLeft == pc \in {"final_commit", "returned", "raised"}

(* C1: after any sequence of builds, and after a successful upsert, every
   full-text entry corresponds to an existing files row: no orphaned full-text
   entry exists. (The claim's clause on orphans; the rest of C1 asks in addition
   for exactly one entry per row with the same name, description and text.) *)
C1_NoOrphanedFullTextEntry ==
    (pc = "idle" \/ (pc = "commit" /\ file_info # None))
        => \A e \in conn.fts : \E r \in conn.files : r.id = e.rowid

(* C2: the upsert of a file is atomic over the record and its full-text entry:
   the committed store never holds a record without its full-text entry. *)
C2_RecordCommittedWithEntry ==
    \A r \in db.files :
        \E e \in db.fts :
            /\ e.rowid = r.id
            /\ e.name = r.name
            /\ e.description = r.description
            /\ e.content_text = r.content_text

(* C3, as claimed: in a build over an unchanged directory the change check
   reports skip for every enumerated path. *)
C3_RerunSkipsEveryPath ==
    [][(RerunUnchanged /\ pc = "check") => pc' # "process"]_vars

(* C3, amended: in a build over an unchanged directory the change check reports
   skip for every enumerated path whose stored record carries the file's current
   hash; nothing is extracted, described or written for it, and its record stays
   as it was, in the connection and in the committed store. *)
C3_RerunSkipsRecordedPaths ==
    [][RerunUnchanged =>
        /\ (pc = "check" /\ HasCurrentRecord(db, CurrentFile))
              => /\ i' = i + 1
                 /\ pc' \in {"report", "final_commit"}
                 /\ conn' = conn
        /\ \A p \in Paths :
              HasCurrentRecord(db, p)
                 => /\ RowsOf(db', p) = RowsOf(db, p)
                    /\ RowsOf(conn', p) = RowsOf(db, p)]_vars

C3_Witness ==
    /\ RerunUnchanged
    /\ pc = "final_commit"
    /\ Total = MaxFiles
    /\ \A p \in Paths : HasCurrentRecord(db, p)
    /\ conn = db

(* C4, as claimed: when exactly one cataloged file's content changed between
   two builds, the second build replaces its record: once that build has
   returned, the stored record of the file carries the new hash. *)
C4_ChangedFileRecordReplaced ==
    (pc = "returned" /\ hist.built /\ Cardinality(hist.changed) = 1)
        => \A p \in hist.changed :
              (disk[p].kind = "file" /\ RowsOf(db, p) # {})
                 => HasCurrentRecord(db, p)

(* C4, amended: a file whose stored record carries another hash than the file
   has now is reprocessed by the next build, and a successful write of its
   record replaces the record of that path wholesale (one row, new id, the new
   hash) and leaves the records of all other paths unchanged. *)
C4_StaleRecordReprocessed ==
    [][/\ (pc = "check" /\ HasStaleRecord(conn, CurrentFile)) => pc' = "process"
       /\ (pc = "insert_files" /\ pc' = "insert_fts")
             => /\ \E r \in conn'.files :
                      /\ RowsOf(conn', CurrentFile) = {r}
                      /\ r.content_hash = _get_file_hash(CurrentFile)
                      /\ \A q \in conn.files : r.id > q.id
                /\ \A q \in Paths \ {CurrentFile} :
                      RowsOf(conn', q) = RowsOf(conn, q)]_vars

C4_Witness ==
    /\ pc = "insert_fts"
    /\ hist.built
    /\ hist.changed = {CurrentFile}
    /\ HasStaleRecord(db, CurrentFile)
    /\ HasCurrentRecord(conn, CurrentFile)
    /\ \E q \in Paths \ {CurrentFile} : RowsOf(conn, q) # {}

(* C5: a failure while handling a file never keeps the later files from being
   reported and handled and is never raised to the caller of build: whenever
   the loop has been left, by a normal return or by an exception, every
   enumerated file has been reported, in order. *)
C5_FailureIsolation ==
    LoopLeft =>
        /\ i = Total
        /\ Len(sink) = Total
        /\ \A k \in 1..Total : sink[k][1] = all_files[k]
        /\ (raised => pc = "raised")

(* file 1 is on disk and was handled first, its store write failed or was
   undone; file 2 was handled after it and the build returned *)
C5_Witness ==
    /\ pc = "returned"
    /\ ~hist.built
    /\ Total = 2
    /\ StatOk(all_files[1])
    /\ RowsOf(db, all_files[1]) = {}
    /\ RowsOf(db, all_files[2]) # {}

(* C10: for each enumerated file, in enumeration order, the progress sink is
   invoked with (file, index, total) before the file's change check,
   extraction, description and upsert, and exactly once per file, skipped and
   failed files included. *)
C10_ProgressBeforeProcessing ==
    /\ \A k \in 1..Len(sink) : sink[k] = <<all_files[k], k - 1, Total>>
    /\ pc = "report" => Len(sink) = i
    /\ InLoopBody =>
          /\ Len(sink) = i + 1
          /\ catalog_progress.currentFile = CurrentFile
          /\ catalog_progress.filesProcessed = i
          /\ catalog_progress.totalFiles = Total
    /\ LoopLeft => Len(sink) = Total

C10_Witness ==
    /\ pc = "commit"
    /\ i = 1
    /\ file_info # None
    /\ Len(sink) = 2
    /\ RowsOf(conn, all_files[1]) = {}
----------------------------------------------------------------------------
(* Properties of search, checked under SpecSearch and SpecRank *)

Messages ==
    {NothingCatalogedMsg, RankerErrorMsg, ParseTroubleMsg, RankerMsg,
     RawResponseMsg, SearchErrorMsg} \cup {FoundMsg(k) : k \in 1..FtsLimit}

IsSummary(f) ==
    /\ DOMAIN f = {"name", "path", "description"}
    /\ \E r \in db.files : f = Summary(r)

(* What the lexical search can return for a query on the committed store *)
LexicalResults(query) == {_fts_search(query, ranked) : ranked \in RankOrders(query, db)}

(* No number the ranker selected names a record of the store *)
NoValidNumber(numbers) ==
    \A k \in 1..Len(numbers) : numbers[k] \notin 1..Cardinality(db.files)

(* C6: search never raises: for every ranker behaviour and every store state
   it returns a result holding a message and a (possibly empty) list of files. *)
C6_SearchNeverRaises ==
    result # None =>
        /\ ~result.raised
        /\ result.message \in Messages
        /\ \A k \in 1..Len(result.files) : IsSummary(result.files[k])

(* the ranker failed and the lexical search had nothing: still a result *)
C6_Witness ==
    /\ result # None
    /\ result.message = RankerErrorMsg
    /\ result.files = <<>>
    /\ db.files # {}

(* C7: on a non-empty catalog, whenever the AI-ranking stage yields no valid
   file, search runs the lexical search on the same query and returns its
   matches; so it returns no file only if the lexical search returns none. *)
C7_LexicalFallback ==
    (result # None /\ result.ranker_called) =>
        /\ NoValidNumber(result.file_numbers) => result.fts_called
        /\ result.fts_called => result.files \in LexicalResults(result.query)
        /\ result.files = <<>> => LexicalResults(result.query) = {<<>>}

(* the ranker selected 999 only, and the lexical search found a file *)
C7_Witness ==
    /\ result # None
    /\ result.file_numbers = <<OutOfRange>>
    /\ result.fts_called
    /\ result.files # <<>>

(* C8: every file returned from the AI-ranking stage is the candidate whose
   number the ranker selected among the numbered candidates shown to it (the
   first min(50, catalog size) of the name-ordered list); a number outside
   [1, N], N the number of candidates shown, is discarded. *)
C8_RankedFilesAmongShown ==
    (result # None /\ result.stage = "ai") =>
        result.files =
            _get_files_by_numbers(result.file_numbers,
                _create_search_prompt(_get_file_descriptions(db, TRUE)))

(* C9: when the catalog holds no records, search returns the fixed 'nothing
   cataloged yet' message with no files, without invoking the ranker or the
   lexical search. *)
C9_EmptyCatalogMessage ==
    (result # None /\ db.files = {}) =>
        /\ result.message = NothingCatalogedMsg
        /\ result.files = <<>>
        /\ ~result.ranker_called
        /\ ~result.fts_called

C9_Witness ==
    /\ result # None
    /\ db.files = {}
    /\ result.message = NothingCatalogedMsg
----------------------------------------------------------------------------
(* Properties of the progress record and of the build threads *)

(* C11: progress is flipped to complete only after every enumerated file of
   the build has been handled and the final commit is done; the flag is false
   from the build's reset until then.  catalog_progress belongs to the build
   started last. *)
C11_CompleteOnlyAfterBuildDone ==
    catalog_progress.isComplete => pc = "idle"

(* C14: at most one build is in flight at a time: there is never a state in
   which two build workers are running. *)
C14_SingleBuildInFlight ==
    ~(pc # "idle" /\ other # None)
(* C12: every started build eventually marks progress complete, whether it
   ends in success or in a build-halting error. *)
C12_StartedBuildCompletes ==
    (catalog_progress.started /\ ~catalog_progress.isComplete)
        ~> catalog_progress.isComplete
(* Files whose record has been written on the build connection and is not
   committed *)
Uncommitted == conn.files \ db.files

(* C13: at every point of a build, the number of files whose upsert has been
   written but not yet committed is at most 100, for every pattern of skipped,
   failed and processed files. *)
C13_UncommittedAtMostBatch ==
    Cardinality(Uncommitted) <= CommitEvery
----------------------------------------------------------------------------
(* Properties of search requests beside a build, checked under SpecServe *)

BuildInProgress == pc # "idle"

(* C15, as claimed: a search request issued while a build is in progress is
   answered with a search result, it is not rejected. *)
C15_SearchDuringBuildAnswered ==
    [][(BuildInProgress /\ result = None /\ result' # None)
          => result'.stage # "rejected"]_vars

(* C15, amended: once a build has completed (the search engine exists), a
   search request issued while a later build is in progress is not held back,
   is answered with a search result, and leaves the build where it was; a
   request is rejected only while no build has completed yet. *)
C15_SearchDuringLaterBuildAnswered ==
    /\ []((BuildInProgress /\ pc \in SearchPoints /\ search_engine /\ result = None)
            => ENABLED Search)
    /\ [][(BuildInProgress /\ result = None /\ result' # None)
            => /\ (result'.stage = "rejected") = ~search_engine
               /\ pc' = pc
               /\ i' = i
               /\ conn' = conn]_vars

(* a search answered from the committed store while the second build holds
   uncommitted writes *)
C15_Witness ==
    /\ result # None
    /\ result.stage \in {"ai", "fts"}
    /\ result.files # <<>>
    /\ pc = "insert_fts"
    /\ conn # db
(* C16: search never mutates the store: for every query and every ranker
   outcome, the records and full-text entries, committed and on the build's
   connection, are the same after search as before it. *)
C16_SearchLeavesStore ==
    [][(result = None /\ result' # None) => (db' = db /\ conn' = conn)]_vars

(* a search that returned files from a store of two records, one of them
   re-indexed (ids 2 and 3 after three inserts) *)
C16_Witness ==
    /\ result # None
    /\ result.stage = "ai"
    /\ Len(result.files) = 2
    /\ db.seq > Cardinality(db.files)
----------------------------------------------------------------------------
(* Properties of extraction and of size formatting, checked under SpecPure *)

TypeCap(ext) ==
    CASE ext = "text" -> TextCap
      [] ext = "pdf" -> PdfCap
      [] ext = "docx" -> DocxCap
      [] ext = "excel" -> ExcelCap

(* C17: for every input file of any length, the extracted text handed
   downstream has length at most the cap of its type: 10000 for plain text,
   5000 for PDF, 5000 for word-processor documents, 3000 for spreadsheets. *)
C17_ExtractedTextWithinCap ==
    (result # None /\ arg.fn = "extract"
        /\ arg.ext \in {"text", "pdf", "docx", "excel"})
        => result.content <= TypeCap(arg.ext)

(* The unit the claim names for a size: the first of B, KB, MB, GB at which
   the divided value is below 1024, TB if none *)
TopDigit(digits) ==
    IF \A j \in 1..Len(digits) : digits[j] = 0 THEN 1
    ELSE CHOOSE j \in 1..Len(digits) :
            digits[j] # 0 /\ \A m \in (j + 1)..Len(digits) : digits[m] = 0

UnitIndex(digits) == Min(TopDigit(digits) - 1, 4)

(* t tenths is a nearest tenth of the size divided k times: twice the distance
   is at most one tenth.  The fraction is taken to its two leading digits; for
   k >= 3 the digits left out are worth less than 20 in the scaled comparison. *)
NearestTenth(digits, k, t) ==
    LET D == t - 10 * IntAbove(digits, k)
        f1 == IF k >= 1 THEN digits[k] ELSE 0
        f2 == IF k >= 2 THEN digits[k - 1] ELSE 0
        sq == UnitBase * UnitBase
        diff == 20 * (f1 * UnitBase + f2) - 2 * D * sq
        tol == sq + (IF k >= 3 THEN 20 ELSE 0)
    IN  /\ D \in 0..10
        /\ diff <= tol
        /\ 0 - diff <= tol

(* C18: an absent size renders as "Unknown"; otherwise the size is divided by
   1024 through the units B, KB, MB, GB, TB, stopping at the first unit where
   the value is below 1024 (TB if none), rendered with one decimal place, so
   that format_size(0) = "0.0 B" and format_size(1536) = "1.5 KB". *)
C18_SizeFormatting ==
    (result # None /\ arg.fn = "format_size") =>
        IF arg.absent THEN result = UnknownSize
        ELSE LET k == UnitIndex(arg.digits)
             IN  /\ result.text = "size"
                 /\ result.unit = <<"B", "KB", "MB", "GB", "TB">>[k + 1]
                 /\ NearestTenth(arg.digits, k, result.tenths)
                 /\ arg.digits = <<0, 0, 0, 0, 0, 0>>
                       => (result.tenths = 0 /\ result.unit = "B")
                 /\ arg.digits = <<512, 1, 0, 0, 0, 0>>
                       => (result.tenths = 15 /\ result.unit = "KB")

(* format_size(1536) = "1.5 KB" *)
C18_Witness ==
    /\ result # None
    /\ arg.fn = "format_size"
    /\ ~arg.absent
    /\ arg.digits = <<512, 1, 0, 0, 0, 0>>
    /\ result = [text |-> "size", tenths |-> 15, unit |-> "KB"]

(* Extraction failed: the extractor of the file's type raised, or an exception
   reached the handler of the dispatch *)
ExtractionFailed(a) ==
    \/ ~a.dispatchOk
    \/ ~a.extractorOk /\ a.ext # "unknown"

(* C20: whenever content extraction fails for a file (in a type-specific
   extractor or in the dispatch itself), the extractor result is empty text
   together with metadata that contains an error entry. *)
C20_FailureRecordsError ==
    (result # None /\ arg.fn = "extract" /\ ExtractionFailed(arg))
        => /\ result.content = 0
           /\ "error" \in result.metadata
----------------------------------------------------------------------------
(* C19: when the AI backend fails for a file during a build, describe returns
   a filename-derived description without raising, the file's record is still
   upserted with that description, and the build continues with the next file:
   processing a file that stat() finds always gives a file_info whose
   description is the backend's answer or the filename-derived one, the files
   insert stores exactly that description, and nothing is raised to the caller
   inside the loop. *)
C19_DescriptionFailureDegrades ==
    [][/\ (pc = "process" /\ StatOk(CurrentFile))
             => /\ file_info' # None
                /\ file_info'.description \in
                      {AiDescription(CurrentFile), FallbackDescription(CurrentFile)}
                /\ pc' = "insert_files"
       /\ (pc = "insert_files" /\ pc' = "insert_fts")
             => \E r \in RowsOf(conn', CurrentFile) :
                   r.description = file_info.description
       /\ InLoopBody => ~raised']_vars

(* the backend failed for file 1: its record is committed with the
   filename-derived description, and file 2 was handled after it *)
C19_Witness ==
    /\ pc = "returned"
    /\ Total = 2
    /\ \E r \in RowsOf(db, all_files[1]) :
          r.description = FallbackDescription(all_files[1])
    /\ RowsOf(db, all_files[2]) # {}
----------------------------------------------------------------------------
(* Properties of the records a build leaves alone, checked under Spec *)

(* The full-text entries that belong to the rows of a path *)
FtsOf(d, p) == {e \in d.fts : \E r \in RowsOf(d, p) : r.id = e.rowid}

NotEnumerated(p) == p \notin Range(all_files) /\ p \notin Range(all_files')

(* C21: a build never deletes or modifies the record or the full-text entry
   of a path that the build does not enumerate: the records of files that
   disappeared from disk stay in the store unchanged, on the build's
   connection and in the committed store. *)
C21_UnenumeratedRecordsKept ==
    [][\A p \in Paths :
          NotEnumerated(p) =>
              /\ RowsOf(db', p) = RowsOf(db, p)
              /\ FtsOf(db', p) = FtsOf(db, p)
              /\ RowsOf(conn', p) = RowsOf(conn, p)
              /\ FtsOf(conn', p) = FtsOf(conn, p)]_vars

(* file 1 was cataloged and then disappeared; the next build enumerated file 2
   alone, wrote its record, and the record of file 1 is still committed *)
C21_Witness ==
    /\ pc = "returned"
    /\ hist.built
    /\ all_files = <<2>>
    /\ disk[1].kind = "absent"
    /\ RowsOf(db, 1) # {}
    /\ FtsOf(db, 1) # {}
    /\ \E r \in RowsOf(db, 2) : r.id = db.seq /\ db.seq > 1
----------------------------------------------------------------------------
(* Properties of the traversal, checked under SpecTree *)

(* A file the claim excludes: its name starts with a dot, or one of the
   directories above it, at any depth, has a dot name or a noise name *)
NoiseNames == {"__pycache__", "node_modules", "venv", "env"}

Excluded(loc) ==
    \/ loc.name.dot
    \/ \E k \in 1..Len(loc.dirs) :
          \/ loc.dirs[k].dot
          \/ loc.dirs[k].word \in NoiseNames

(* C22: no file whose name starts with a dot, and no file under a
   dot-directory or a noise directory (__pycache__, node_modules, .git, .svn,
   venv, env) at any depth below the root, is ever reported to the progress
   sink, extracted, or stored by a build. *)
C22_TraversalPruning ==
    \A p \in Paths :
        Excluded(tree[p]) =>
            /\ p \notin Range(all_files)
            /\ \A k \in 1..Len(sink) : sink[k][1] # p
            /\ catalog_progress.currentFile # p
            /\ (pc = "report" \/ InLoopBody) => CurrentFile # p
            /\ RowsOf(conn, p) = {}
            /\ RowsOf(db, p) = {}

(* file 1 lies in src/node_modules, a noise directory below the top level;
   the build has stored the other file and returned *)
C22_Witness ==
    /\ pc = "returned"
    /\ Len(tree[1].dirs) = 2
    /\ tree[1].dirs[1] = EntryName(FALSE, "src")
    /\ tree[1].dirs[2] = EntryName(FALSE, "node_modules")
    /\ ~tree[1].name.dot
    /\ disk[1].kind = "file"
    /\ RowsOf(db, 1) = {}
    /\ RowsOf(db, 2) # {}
----------------------------------------------------------------------------
(* C23: the pipeline checks a stop signal between files: once a stop is
   signaled during a build, no further file is processed after the one
   currently in progress, so the build never goes on to report and handle the
   next file. *)
C23_StopBetweenFiles ==
    [][(stop /\ pc = "report") => pc' # "check"]_vars
----------------------------------------------------------------------------
(* The messages search_query gives: the ranker's own, the raw answer, or one
   of the two apologies *)
AiStageMessages == {RankerMsg, RawResponseMsg, ParseTroubleMsg, RankerErrorMsg}

(* C24: if the AI stage yields at least one valid file the message is the
   ranker's message; else if the lexical fallback returns k >= 1 files the
   message is the synthesized 'found k files' message with k the number of
   files returned; else the message is the one produced by the AI stage. *)
C24_MessageSelection ==
    (result # None /\ result.ranker_called) =>
        /\ (result.stage = "ai") = ~NoValidNumber(result.file_numbers)
        /\ result.stage = "ai" =>
              /\ result.files # <<>>
              /\ result.message = RankerMsg
        /\ (result.stage # "ai" /\ result.files # <<>>) =>
              /\ result.stage = "fts"
              /\ result.message = FoundMsg(Len(result.files))
        /\ (result.stage # "ai" /\ result.files = <<>>) =>
              /\ result.stage = "fts"
              /\ result.message \in AiStageMessages
              /\ result.file_numbers # <<>> => result.message = RankerMsg

(* the ranker selected nothing valid and the lexical search returned both
   files: 'found 2 files' *)
C24_Witness ==
    /\ result # None
    /\ result.stage = "fts"
    /\ Len(result.files) = 2
    /\ result.message = FoundMsg(2)
    /\ result.file_numbers = <<OutOfRange>>
----------------------------------------------------------------------------
(* C25: any reader of the progress state that observes the completion flag
   set also observes percent = 100 and a non-empty end timestamp: the
   completion flip is not observable half-done. *)
C25_CompletionSeenWhole ==
    (result # None /\ result.stage = "progress" /\ result.snapshot.isComplete)
        => /\ result.snapshot.progress = 100
           /\ result.snapshot.ended
----------------------------------------------------------------------------
(* C26: whenever the progress state shows the completion flag set, no build
   worker is still running, and the progress fields describe the most recently
   started build, which is complete: percent 100, end timestamp set; this
   holds also when a build is started while an earlier one is still running. *)
C26_CompleteMeansNoWorker ==
    catalog_progress.isComplete =>
        /\ pc = "idle"
        /\ other = None
        /\ catalog_progress.progress = 100
        /\ catalog_progress.ended
----------------------------------------------------------------------------
(* Properties of the reported progress, checked under SpecProgress *)

BuildStarts == hist'.builds # hist.builds

(* C27: during and after a build over n > 0 files, the reported
   filesProcessed never exceeds n - 1 and the percent computed by the progress
   callback stays below 100; percent is non-decreasing within one build and
   reaches 100 only through the completion step, which leaves filesProcessed
   at n - 1. *)
C27_ProgressBelowTotal ==
    /\ []((pc # "idle" /\ Total > 0) =>
            (/\ catalog_progress.filesProcessed <= Total - 1
             /\ catalog_progress.totalFiles \in {0, Total}
             /\ catalog_progress.progress \in 0..99))
    /\ []((catalog_progress.totalFiles > 0) =>
            (/\ catalog_progress.filesProcessed <= catalog_progress.totalFiles - 1
             /\ (catalog_progress.progress = 100) = catalog_progress.isComplete))
    /\ [][/\ (~BuildStarts) =>
                (catalog_progress'.progress >= catalog_progress.progress)
          /\ (pc = "report" /\ pc' = "check") =>
                (/\ catalog_progress'.filesProcessed = i
                 /\ Total * catalog_progress'.progress <= 100 * i
                 /\ 100 * i < Total * (catalog_progress'.progress + 2))
          /\ (catalog_progress'.progress = 100 /\ catalog_progress.progress # 100) =>
                (/\ pc = "returned"
                 /\ (Total > 0) => (catalog_progress'.filesProcessed = Total - 1))]_vars

(* a build over MaxTotal files is complete: 100 percent, and filesProcessed
   is the index of the last file *)
C27_Witness ==
    /\ catalog_progress.isComplete
    /\ catalog_progress.progress = 100
    /\ catalog_progress.totalFiles = MaxTotal
    /\ catalog_progress.filesProcessed = MaxTotal - 1
----------------------------------------------------------------------------
(* Properties of a file whose processing fails, checked under SpecRetry *)

(* C28: when processing of a file fails before the upsert (the process step
   returns nothing), the build writes nothing for that path: an existing
   record and full-text entry for the path are left unchanged, and the path
   is reprocessed by the next build as long as its current hash differs from
   the stored one or no record exists. *)
C28_FailedFileLeftAlone ==
    [][/\ (pc = "process" /\ ~StatOk(CurrentFile)) =>
             (/\ file_info' = None
              /\ pc' = "commit"
              /\ conn' = conn
              /\ db' = db)
       /\ (pc = "commit" /\ file_info = None) =>
             (/\ RowsOf(conn', CurrentFile) = RowsOf(conn, CurrentFile)
              /\ FtsOf(conn', CurrentFile) = FtsOf(conn, CurrentFile)
              /\ RowsOf(db', CurrentFile) = RowsOf(conn, CurrentFile)
              /\ FtsOf(db', CurrentFile) = FtsOf(conn, CurrentFile))
       /\ (pc = "check" /\ ~HasCurrentRecord(conn, CurrentFile)) =>
             (pc' = "process" /\ i' = i)]_vars

(* file 1 has a record and its processing failed in the first build; the
   record is as it was, and the second build processes file 1 again *)
C28_Witness ==
    /\ hist.builds = 2
    /\ hist.built
    /\ hist.changes = 0
    /\ pc = "process"
    /\ CurrentFile = 1
    /\ ~StatOk(1)
    /\ db.files \cap CatalogOfOne(1).files # {}
    /\ db.fts \cap CatalogOfOne(1).fts # {}
    /\ RowsOf(db, 2) # {}
----------------------------------------------------------------------------
(* Properties of stored descriptions, checked under Spec *)

DescriptionsOf(d, p) == {r.description : r \in RowsOf(d, p)}

(* C29: a stored description is regenerated only when the file's content hash
   changes: a file whose committed record carries the file's current hash is
   skipped by every build and keeps its description, the filename-derived
   fallback included, whatever the description backend would answer now. *)
C29_DescriptionKeptUntilHashChanges ==
    [][\A p \in Paths :
          HasCurrentRecord(db, p) =>
              /\ DescriptionsOf(db', p) = DescriptionsOf(db, p)
              /\ DescriptionsOf(conn', p) = DescriptionsOf(db, p)
              /\ (pc = "check" /\ CurrentFile = p) =>
                    (/\ i' = i + 1
                     /\ pc' \in {"report", "final_commit"}
                     /\ file_info' = None)]_vars

(* a second build over the unchanged directory: file 1 was cataloged with the
   fallback description and has been skipped, while the backend answers for
   file 2 *)
C29_Witness ==
    /\ hist.built
    /\ hist.changed = {}
    /\ pc = "insert_files"
    /\ all_files = <<1, 2>>
    /\ i = 1
    /\ file_info.description = AiDescription(2)
    /\ DescriptionsOf(db, 1) = {FallbackDescription(1)}
    /\ DescriptionsOf(conn, 1) = {FallbackDescription(1)}
====
